---- MODULE Spec2Model ----
(***************************************************************************)
(* A model of the ogdl graph type (Graph: This, Out), its path engine      *)
(* (get, set) and its expression evaluator (evalBinary, assign, logic,     *)
(* calc).                                                                  *)
(*                                                                         *)
(* Graph objects live in a heap: a sequence of node records addressed by   *)
(* their position, so that two references to one node are one id and a     *)
(* mutation through either is seen through both.  A *Graph is an id, the   *)
(* nil pointer is NilPtr.  An interface{} value is a record with a kind.   *)
(* A call that panics (nil dereference, index out of range, integer        *)
(* division by zero) or never returns (unbounded recursion over a cycle)   *)
(* yields ok = FALSE; the program does not continue after it.              *)
(***************************************************************************)
EXTENDS Integers, Sequences, FiniteSets, TLC

VARIABLES heap, g, c, status, last, heap0

vars == <<heap, g, c, status, last, heap0>>

----------------------------------------------------------------------------
(* Bounds of the model.                                                    *)

\* most nodes a heap holds
MaxHeap == 4
\* most child slots all nodes of a heap hold together
MaxEdges == 4
\* most nodes and child slots of a heap of the path specification
MaxPathHeap == 4
MaxPathEdges == 3
\* most nodes of the heap of the Copy specification
MaxCopyHeap == 6
\* most calls the Copy specification makes after the copy
MaxCalls == 1
\* deepest chain the Depth specification builds, as an excess over DepthLimit
MaxExcess == 4
\* width in bits of the two's complement integers standing for int64
IntBits == 4
\* the nodes allocated by the evaluations of one run
MaxEvalHeap == 5

----------------------------------------------------------------------------
(* interface{} values.                                                     *)

NilPtr == 0

Val(k, s, n, d, e) == [k |-> k, s |-> s, n |-> n, d |-> d, e |-> e]

\* the nil interface value
Nil == Val("nil", "", 0, 1, <<>>)
Str(x) == Val("str", x, 0, 1, <<>>)
I64(i) == Val("int64", "", i, 1, <<>>)
\* a value of Go's type int (an untyped constant, len())
GoInt(i) == Val("int", "", i, 1, <<>>)
\* a float64 with the value n/d; d = 0 stands for +Inf, -Inf (n = 1, -1) and NaN (n = 0)
F64(n, d) == Val("float64", "", n, d, <<>>)
Bool(b) == Val("bool", "", IF b THEN 1 ELSE 0, 1, <<>>)
\* a *Graph held in an interface value (NilPtr: a typed nil pointer)
Ptr(id) == Val("graph", "", id, 1, <<>>)
\* a []interface{} holding the given values
Slice(vs) == Val("slice", "", 0, 1, vs)

Abs(i) == IF i < 0 THEN -i ELSE i

\* strconv's rendering of a float with the value n/d, for d in {1, 2}
FloatString(n, d) ==
    IF d = 1 THEN ToString(n)
    ELSE IF d = 2
         THEN (IF n < 0 THEN "-" ELSE "") \o ToString(Abs(n) \div 2) \o ".5"
         ELSE ToString(n) \o "/" \o ToString(d)

\* the scalar-conversion helper: the string form of a value
_string(v) ==
    CASE v.k = "nil" -> ""
      [] v.k = "str" -> v.s
      [] v.k = "int64" -> ToString(v.n)
      [] v.k = "int" -> ToString(v.n)
      [] v.k = "float64" -> FloatString(v.n, v.d)
      [] v.k = "bool" -> (IF v.n = 1 THEN "true" ELSE "false")
      [] OTHER -> ""

----------------------------------------------------------------------------
(* Nodes and the heap.                                                     *)

\* Graph{This, Out}
GraphRec(this, out) == [This |-> this, Out |-> out]

Ids(h) == 1 .. Len(h)

\* the result of a call: the heap after it, the value returned, and whether it returned
Ret(h, r) == [h |-> h, ret |-> r, ok |-> TRUE]
PanicRet(h) == [h |-> h, ret |-> NilPtr, ok |-> FALSE]

\* New() with no argument: &Graph{}
New(h) == Ret(Append(h, GraphRec(Nil, <<>>)), Len(h) + 1)

\* New(val): &Graph{n, nil} where n is the variadic slice holding val
NewVal(h, val) == Ret(Append(h, GraphRec(Slice(<<val>>), <<>>)), Len(h) + 1)

\* g.IsNil()
IsNil(h, n) == h[n].This = Nil

\* g.Len(): -1 on a nil receiver
GLen(h, n) == IF n = NilPtr THEN -1 ELSE Len(h[n].Out)

SetOut(h, n, out) == [h EXCEPT ![n].Out = out]

RECURSIVE SumOut(_, _)
SumOut(h, i) == IF i = 0 THEN 0 ELSE Len(h[i].Out) + SumOut(h, i - 1)

\* the number of child slots in the heap
Edges(h) == SumOut(h, Len(h))

\* the heap is within the bounds of the model
Small(h) == Len(h) <= MaxHeap /\ Edges(h) <= MaxEdges

\* Add without the splice: a transparent node is nested like any other
AddNoSplice(h, n, v) ==
    IF v.k = "graph" /\ v.n # NilPtr
    THEN Ret(SetOut(h, n, Append(h[n].Out, v.n)), v.n)
    ELSE LET gg == Len(h) + 1
         IN  Ret(SetOut(Append(h, GraphRec(v, <<>>)), n, Append(h[n].Out, gg)), gg)

\* g.Add(n): n is an interface value
Add(h, n, v) ==
    IF v.k = "graph" /\ v.n # NilPtr
    THEN IF IsNil(h, v.n)
         THEN Ret(SetOut(h, n, h[n].Out \o h[v.n].Out), v.n)
         ELSE Ret(SetOut(h, n, Append(h[n].Out, v.n)), v.n)
    ELSE LET gg == Len(h) + 1
         IN  Ret(SetOut(Append(h, GraphRec(v, <<>>)), n, Append(h[n].Out, gg)), gg)

\* g.AddNodes(g2)
AddNodes(h, n, g2) ==
    IF g2 # NilPtr THEN SetOut(h, n, h[n].Out \o h[g2].Out) ELSE h

----------------------------------------------------------------------------
(* Lookup, and the path engine: get and set.                               *)
(* A parsed path is a sequence of elements; an element is a node record    *)
(* whose This is its tag or field name and whose Out are its subnodes, the *)
(* arguments of an index or a selector.                                    *)

\* the reserved tags of the path parser
TypeIndex == "!i"
TypeSelector == "!s"

\* g.ThisString(), "" on a nil receiver
ThisString(h, n) == IF n = NilPtr THEN "" ELSE _string(h[n].This)

\* strconv.Atoi on the argument strings the model uses
Atoi(s) ==
    CASE s = "0" -> [v |-> 0, err |-> FALSE]
      [] s = "1" -> [v |-> 1, err |-> FALSE]
      [] s = "2" -> [v |-> 2, err |-> FALSE]
      [] s = "3" -> [v |-> 3, err |-> FALSE]
      [] s = "-1" -> [v |-> -1, err |-> FALSE]
      [] OTHER -> [v |-> 0, err |-> TRUE]

\* elem.Int64(): the integer of the element's first subnode, 0 without one
Int64(elem) ==
    IF Len(elem.Out) = 0 THEN 0 ELSE Atoi(_string(elem.Out[1].This)).v

\* the for loop of g.Node(s) from position i: the first node found, NilPtr when
\* there is none, not ok when it reads the content of a nil slot
RECURSIVE NodeFrom(_, _, _, _)
NodeFrom(h, out, s, i) ==
    IF i > Len(out) THEN Ret(h, NilPtr)
    ELSE IF out[i] = NilPtr THEN PanicRet(h)
    ELSE IF s = _string(h[out[i]].This) THEN Ret(h, out[i])
    ELSE NodeFrom(h, out, s, i + 1)

\* g.Node(s)
Node(h, n, s) == NodeFrom(h, h[n].Out, s, 1)

\* g.GetAt(i), i counted from 0
GetAt(h, n, i) == IF i >= Len(h[n].Out) \/ i < 0 THEN NilPtr ELSE h[n].Out[i + 1]

\* addEqualNodes after the visit of the node n of the slice: the rest of the slice
RECURSIVE addEqualLoop(_, _, _, _, _, _)
addEqualRest(r2, r, out, key, recurse, fuel) ==
    IF r2.ok THEN addEqualLoop(r2.h, r, Tail(out), key, recurse, fuel) ELSE r2

\* the recursion of addEqualNodes into the node n, h1 being the heap after the
\* test of n
addEqualInto(h1, r, n, key, recurse, fuel) ==
    IF recurse THEN addEqualLoop(h1, r, h1[n].Out, key, TRUE, fuel - 1) ELSE Ret(h1, r)

\* the loop of addEqualNodes over the slice out of g2
addEqualLoop(h, r, out, key, recurse, fuel) ==
    IF out = <<>> THEN Ret(h, r)
    ELSE IF Head(out) = NilPtr \/ fuel = 0 THEN PanicRet(h)
    ELSE addEqualRest(
             addEqualInto(IF key = _string(h[Head(out)].This)
                          THEN AddNodes(h, r, Head(out)) ELSE h,
                          r, Head(out), key, recurse, fuel),
             r, out, key, recurse, fuel)

\* g.addEqualNodes(g2, key, recurse)
addEqualNodes(h, r, g2, key, recurse) ==
    IF g2 = NilPtr THEN Ret(h, r)
    ELSE addEqualLoop(h, r, h[g2].Out, key, recurse, Len(h) + 1)

\* the loop of the {N} selector: the i-th node of out named elemPrev, NilPtr without
RECURSIVE selectNth(_, _, _, _)
selectNth(h, out, elemPrev, i) ==
    IF out = <<>> THEN NilPtr
    ELSE IF ThisString(h, Head(out)) = elemPrev
         THEN IF i - 1 = 0 THEN Head(out) ELSE selectNth(h, Tail(out), elemPrev, i - 1)
         ELSE selectNth(h, Tail(out), elemPrev, i)

\* the state of get's loop
GetSt(h, node, nodePrev, elemPrev, iknow, k) ==
    [h |-> h, node |-> node, nodePrev |-> nodePrev, elemPrev |-> elemPrev,
     iknow |-> iknow, k |-> k]

\* get returns nil from inside its loop
GetNil(h) == GetSt(h, NilPtr, NilPtr, "", FALSE, "ret")

\* case TypeIndex, a being Atoi of the index and nn the node GetAt gives
getIndexAt(st, nn) ==
    IF nn = NilPtr THEN GetNil(st.h)
    ELSE GetSt(st.h, nn, st.node, ThisString(st.h, nn), FALSE, "cont")

getIndex(st, elem, a) ==
    IF a.err THEN GetNil(st.h) ELSE getIndexAt(st, GetAt(st.h, st.node, a.v))

\* case TypeSelector, {}: e is what r.addEqualNodes(nodePrev, elemPrev, false) returned
getSelectAll(st, r, e) ==
    IF ~e.ok THEN GetSt(e.h, NilPtr, NilPtr, "", FALSE, "panic")
    ELSE IF GLen(e.h, r) = 0 THEN GetNil(e.h)
    ELSE GetSt(e.h, r, st.nodePrev, st.elemPrev, FALSE, "cont")

\* case TypeSelector, {N}: nn is the N-th node named elemPrev, added to r
getSelectNode(st, r, nn) ==
    IF nn = NilPtr THEN GetNil(r.h)
    ELSE GetSt(AddNodes(r.h, r.ret, nn), r.ret, st.nodePrev, st.elemPrev, FALSE, "cont")

getSelectNth(st, r, a) ==
    IF a.err \/ a.v < 0 THEN GetNil(st.h)
    ELSE getSelectNode(st, r, selectNth(st.h, st.h[st.nodePrev].Out, st.elemPrev, a.v + 1))

\* case TypeSelector, r being New()
getSelect(st, elem, r) ==
    IF Len(elem.Out) = 0
    THEN getSelectAll(st, r.ret, addEqualNodes(r.h, r.ret, st.nodePrev, st.elemPrev, FALSE))
    ELSE getSelectNth(st, r, Atoi(_string(elem.Out[1].This)))

\* case _len, nn being New()
getLen(st, nn) ==
    GetSt(Add(nn.h, nn.ret, GoInt(GLen(st.h, st.node))).h, nn.ret, NilPtr, "", FALSE, "ret")

\* the default case, x being what node.Node(p) returned
getField(st, p, x) ==
    IF x.ok THEN GetSt(st.h, x.ret, st.node, p, TRUE, "cont")
    ELSE GetSt(st.h, NilPtr, NilPtr, "", FALSE, "panic")

\* the switch of get's loop on p, the string of the element
getSwitch(st, elem, p) ==
    CASE p = TypeIndex ->
           IF Len(elem.Out) = 0 THEN GetNil(st.h)
           ELSE getIndex(st, elem, Atoi(_string(elem.Out[1].This)))
      [] p = TypeSelector ->
           IF st.nodePrev = NilPtr \/ GLen(st.h, st.nodePrev) = 0 \/ st.elemPrev = ""
           THEN GetNil(st.h)
           ELSE getSelect(st, elem, New(st.h))
      [] p = "_len" -> getLen(st, New(st.h))
      [] OTHER -> getField(st, p, Node(st.h, st.node, p))

\* one turn of get's loop: k is "cont" to go on, "ret" when get returns node
\* from inside the loop, "panic"
getElem(st, elem) == getSwitch(st, elem, _string(elem.This))

\* get's loop over the elements of path from position i; getNext is the end of a
\* turn, st2 being the state after it
RECURSIVE getLoop(_, _, _)
getNext(st2, path, i) ==
    IF st2.k # "cont" \/ st2.node = NilPtr THEN st2 ELSE getLoop(st2, path, i + 1)

getLoop(st, path, i) ==
    IF i > Len(path) THEN st ELSE getNext(getElem(st, path[i]), path, i)

\* the node get returns for a node that is not known to be a field: a new
\* transparent node node2 with node added
getWrap(node2, node) == Ret(Add(node2.h, node2.ret, Ptr(node)).h, node2.ret)

\* the end of get, after the loop
getEnd(st) ==
    IF st.k = "panic" THEN PanicRet(st.h)
    ELSE IF st.k = "ret" \/ st.node = NilPtr THEN Ret(st.h, st.node)
    ELSE IF st.h[st.node].This # Nil /\ ~st.iknow THEN getWrap(New(st.h), st.node)
    ELSE Ret(st.h, st.node)

\* get that gives up on a path without elements
getEmptyNil(h, n, path) ==
    IF n = NilPtr \/ path = <<>> THEN Ret(h, NilPtr)
    ELSE getEnd(getLoop(GetSt(h, n, NilPtr, "", TRUE, "cont"), path, 1))

\* g.get(path)
get(h, n, path) ==
    IF n = NilPtr THEN Ret(h, NilPtr)
    ELSE getEnd(getLoop(GetSt(h, n, NilPtr, "", TRUE, "cont"), path, 1))

\* the index branch of set: grow node's children to i+1 slots, the new ones nil,
\* and put New(val) at i; a negative i is out of range
setIndex(h, node, elem, val) ==
    LET i == Int64(elem)
        out == h[node].Out
        o == IF Len(out) <= i
             THEN [j \in 1 .. i + 1 |-> IF j <= Len(out) THEN out[j] ELSE NilPtr]
             ELSE out
    IN  IF i < 0 THEN PanicRet(h)
        ELSE LET nv == NewVal(h, val) IN
             Ret(SetOut(nv.h, node, [o EXCEPT ![i + 1] = nv.ret]), nv.ret)

\* the end of set without the reset of the children
setTailKeep(h, node, val) == Add(h, node, val)

\* the end of set: node.Out = nil; return node.Add(val)
setTail(h, node, val) == Add(SetOut(h, node, <<>>), node, val)

\* the second loop of set: construct the elements of path from position i under node
RECURSIVE setBuild(_, _, _, _, _)
setBuild(h, node, path, i, val) ==
    IF i > Len(path) THEN setTail(h, node, val)
    ELSE IF _string(path[i].This) = TypeIndex THEN setIndex(h, node, path[i], val)
    ELSE LET a == Add(h, node, path[i].This) IN
         setBuild(a.h, a.ret, path, i + 1, val)

\* the first loop of set: follow the elements of path from position i
RECURSIVE setWalk(_, _, _, _, _)
setWalk(h, node, path, i, val) ==
    IF i > Len(path) THEN setTail(h, node, val)
    ELSE IF _string(path[i].This) = TypeIndex THEN setIndex(h, node, path[i], val)
    ELSE LET x == Node(h, node, _string(path[i].This)) IN
         IF ~x.ok THEN PanicRet(h)
         ELSE IF x.ret = NilPtr THEN setBuild(h, node, path, i, val)
         ELSE setWalk(h, x.ret, path, i + 1, val)

\* g.set(path, val)
set(h, n, path, val) == setWalk(h, n, path, 1, val)

----------------------------------------------------------------------------
(* Depth.                                                                  *)

\* the level above which Depth reports a cycle
DepthLimit == 100

\* Depth is followed call by call.  A frame of a call n.Depth() that is in its
\* loop: k is the position in n.Out of the child whose Depth is being called, i
\* the greatest depth found so far.
Frame(n, k, i) == [n |-> n, k |-> k, i |-> i]

\* the calls of Depth in progress: pc is "call" when the call arg.Depth() begins,
\* "ret" when a call has returned val to the frame on top of stack, "done" when
\* the call of the program has returned val, "never" when the calls go deeper
\* than the heap has nodes: they are on a cycle and none returns
DepthSt(pc, stack, arg, val) ==
    [op |-> "Depth", pc |-> pc, stack |-> stack, arg |-> arg, val |-> val]

\* the beginning of n.Depth(): return 0 without children, else i := 0 and the
\* call of Depth on the first child; Len is -1 on a nil receiver, whose Out
\* cannot be read
DepthCall(h, st) ==
    IF st.arg = NilPtr THEN DepthSt("panic", st.stack, NilPtr, 0)
    ELSE IF GLen(h, st.arg) = 0 THEN DepthSt("ret", st.stack, NilPtr, 0)
    ELSE IF Len(st.stack) > Len(h) THEN DepthSt("never", st.stack, NilPtr, 0)
    ELSE DepthSt("call", Append(st.stack, Frame(st.arg, 1, 0)), h[st.arg].Out[1], 0)

\* the frame f after j := n.Depth() returned st.val: if j > i { i = j }, then the
\* next child, or after the last one -1 if i > 100 and i + 1 otherwise
DepthNext(h, st, f, i) ==
    IF f.k < Len(h[f.n].Out)
    THEN DepthSt("call", [st.stack EXCEPT ![Len(st.stack)] = Frame(f.n, f.k + 1, i)],
                 h[f.n].Out[f.k + 1], 0)
    ELSE DepthSt("ret", SubSeq(st.stack, 1, Len(st.stack) - 1), NilPtr,
                 IF i > DepthLimit THEN -1 ELSE i + 1)

\* a call of Depth returns st.val: to the program, or to the frame on top
DepthReturn(h, st) ==
    IF st.stack = <<>> THEN DepthSt("done", <<>>, NilPtr, st.val)
    ELSE DepthNext(h, st, st.stack[Len(st.stack)],
                   IF st.val > st.stack[Len(st.stack)].i
                   THEN st.val ELSE st.stack[Len(st.stack)].i)

----------------------------------------------------------------------------
(* Copy and the in-place mutators: Delete, DeleteAt, Substitute.           *)
(* A recursion that goes deeper than the heap has nodes is on a cycle and  *)
(* never returns: fuel counts the levels left.                             *)

\* Copy that appends c's subnodes themselves
CopyShallow(h, n, cn) == Ret(AddNodes(h, n, cn), NilPtr)

\* the loop of g.Copy(c) over the slice out of c
RECURSIVE copyLoop(_, _, _, _)
copyLoop(h, n, out, fuel) ==
    IF out = <<>> THEN Ret(h, NilPtr)
    ELSE IF Head(out) = NilPtr \/ fuel = 0 THEN PanicRet(h)
    ELSE LET nn == Add(h, n, h[Head(out)].This)
             r == copyLoop(nn.h, nn.ret, nn.h[Head(out)].Out, fuel - 1)
         IN  IF r.ok THEN copyLoop(r.h, n, Tail(out), fuel) ELSE r

\* g.Copy(c)
Copy(h, n, cn) == copyLoop(h, n, h[cn].Out, Len(h) + 1)

\* the loop of g.Delete(v) from position i
RECURSIVE deleteLoop(_, _, _, _)
deleteLoop(h, n, v, i) ==
    IF i > Len(h[n].Out) THEN Ret(h, NilPtr)
    ELSE LET out == h[n].Out IN
         IF out[i] = NilPtr THEN PanicRet(h)
         ELSE IF h[out[i]].This = v
              THEN deleteLoop(SetOut(h, n, SubSeq(out, 1, i - 1) \o SubSeq(out, i + 1, Len(out))),
                              n, v, i)
              ELSE deleteLoop(h, n, v, i + 1)

\* g.Delete(v)
Delete(h, n, v) == deleteLoop(h, n, v, 1)

\* g.DeleteAt(i), i counted from 0
DeleteAt(h, n, i) ==
    IF i < 0 \/ i >= GLen(h, n) THEN Ret(h, NilPtr)
    ELSE LET out == h[n].Out IN
         Ret(SetOut(h, n, SubSeq(out, 1, i) \o SubSeq(out, i + 2, Len(out))), NilPtr)

\* the loop of g.Substitute(s, v) over the slice out of g
RECURSIVE substituteLoop(_, _, _, _, _)
substituteLoop(h, out, s, v, fuel) ==
    IF out = <<>> THEN Ret(h, NilPtr)
    ELSE IF Head(out) = NilPtr \/ fuel = 0 THEN PanicRet(h)
    ELSE LET n == Head(out)
             h1 == IF _string(h[n].This) = s THEN [h EXCEPT ![n].This = v] ELSE h
             r == substituteLoop(h1, h1[n].Out, s, v, fuel - 1)
         IN  IF r.ok THEN substituteLoop(r.h, Tail(out), s, v, fuel) ELSE r

\* g.Substitute(s, v)
Substitute(h, n, s, v) == substituteLoop(h, h[n].Out, s, v, Len(h) + 1)

----------------------------------------------------------------------------
(* calc.  int64 is a two's complement integer of IntBits bits; a float64   *)
(* is a fraction n/d in lowest terms.                                      *)

RECURSIVE Pow2(_)
Pow2(n) == IF n = 0 THEN 1 ELSE 2 * Pow2(n - 1)

MinInt == -Pow2(IntBits - 1)
MaxInt == Pow2(IntBits - 1) - 1

\* the value of x in two's complement of IntBits bits
Wrap(x) == ((x - MinInt) % Pow2(IntBits)) + MinInt

\* Go's / and % on integers: the quotient truncated toward zero, the remainder
\* with the sign of the dividend
Quot(a, b) == IF (a < 0) = (b < 0) THEN Abs(a) \div Abs(b) ELSE -(Abs(a) \div Abs(b))
Rem(a, b) == a - b * Quot(a, b)

RECURSIVE Gcd(_, _)
Gcd(a, b) == IF b = 0 THEN a ELSE Gcd(b, a % b)

Sign(x) == IF x > 0 THEN 1 ELSE IF x < 0 THEN -1 ELSE 0

\* the float64 n/d: in lowest terms with d > 0; x/0 is an infinity, 0/0 is NaN
Frac(n, d) ==
    IF d = 0 THEN F64(Sign(n), 0)
    ELSE LET k == Gcd(Abs(n), Abs(d)) IN F64(Sign(d) * (n \div k), Abs(d) \div k)

\* int64(f) of a finite float: the fraction truncated toward zero
Trunc(f) == Quot(f.n, f.d)

\* the result of calc: the value, and whether calc returned (it panics on an
\* integer division by zero)
CalcRet(v) == [v |-> v, ok |-> TRUE]
CalcPanic == [v |-> Nil, ok |-> FALSE]

\* integer arithmetic of an operator on int64 operands
intOp(a, b, op) ==
    CASE op = "+" -> CalcRet(I64(Wrap(a + b)))
      [] op = "-" -> CalcRet(I64(Wrap(a - b)))
      [] op = "*" -> CalcRet(I64(Wrap(a * b)))
      [] op = "/" -> IF b = 0 THEN CalcPanic ELSE CalcRet(I64(Wrap(Quot(a, b))))
      [] op = "%" -> IF b = 0 THEN CalcPanic ELSE CalcRet(I64(Wrap(Rem(a, b))))

\* float arithmetic of +, -, * and / on the fractions x and y
floatOp(x, y, op) ==
    CASE op = "+" -> CalcRet(Frac(x.n * y.d + y.n * x.d, x.d * y.d))
      [] op = "-" -> CalcRet(Frac(x.n * y.d - y.n * x.d, x.d * y.d))
      [] op = "*" -> CalcRet(Frac(x.n * y.n, x.d * y.d))
      [] op = "/" -> CalcRet(Frac(x.n * y.d, x.d * y.n))

\* a % b on integers got from the operands, as a value of kind k
modOp(a, b, k) ==
    IF b = 0 THEN CalcPanic ELSE CalcRet(Val(k, "", Wrap(Rem(a, b)), 1, <<>>))

\* calc where + of a number and a non-number gives no result
calcBothOrNone(v1, v2, op) ==
    LET ok == v1.k = "int64"
        ok2 == v2.k = "int64"
        ok3 == ~ok /\ v1.k = "float64"
        ok4 == ~ok2 /\ v2.k = "float64"
    IN
    IF ok /\ ok2 THEN intOp(v1.n, v2.n, op)
    ELSE IF ok3 /\ ok4
         THEN IF op = "%" THEN modOp(Trunc(v1), Trunc(v2), "int") ELSE floatOp(v1, v2, op)
    ELSE IF ok /\ ok4
         THEN IF op = "%" THEN modOp(v1.n, Trunc(v2), "int64")
              ELSE floatOp(F64(v1.n, 1), v2, op)
    ELSE IF ok3 /\ ok2
         THEN IF op = "%" THEN modOp(Trunc(v1), v2.n, "int64")
              ELSE floatOp(v1, F64(v2.n, 1), op)
    ELSE IF op # "+" \/ ok \/ ok2 \/ ok3 \/ ok4 THEN CalcRet(Nil)
    ELSE CalcRet(Str(_string(v1) \o _string(v2)))

\* calc(v1, v2, op)
calc(v1, v2, op) ==
    LET ok == v1.k = "int64"
        ok2 == v2.k = "int64"
        ok3 == ~ok /\ v1.k = "float64"
        ok4 == ~ok2 /\ v2.k = "float64"
    IN
    IF ok /\ ok2 THEN intOp(v1.n, v2.n, op)
    ELSE IF ok3 /\ ok4
         THEN IF op = "%" THEN modOp(Trunc(v1), Trunc(v2), "int") ELSE floatOp(v1, v2, op)
    ELSE IF ok /\ ok4
         THEN IF op = "%" THEN modOp(v1.n, Trunc(v2), "int64")
              ELSE floatOp(F64(v1.n, 1), v2, op)
    ELSE IF ok3 /\ ok2
         THEN IF op = "%" THEN modOp(Trunc(v1), v2.n, "int64")
              ELSE floatOp(v1, F64(v2.n, 1), op)
    ELSE IF op # "+" THEN CalcRet(Nil)
    ELSE CalcRet(Str(_string(v1) \o _string(v2)))

----------------------------------------------------------------------------
(* The expression evaluator: EvalExpression, evalBinary, logic, assign.    *)
(* A parsed expression is a node record: This is an operator, a tag or a   *)
(* literal, Out are the operand expressions; the left operand of an        *)
(* assignment is a path node, whose Out are the path elements.  The        *)
(* expressions of the model hold no unary !, no group, no comparison and   *)
(* no path that is read: those cases of the evaluator are not modelled.    *)
(* An evaluation records in ev the positions of the expressions it         *)
(* evaluated, in order: <<>> is the expression itself, pos \o <<i>> the    *)
(* i-th operand of the expression at pos.                                  *)

\* the reserved tags of the expression parser
TYPE_EXPRESSION == "!e"
TYPE_PATH == "!p"

\* the literals the lexer reads as numbers, and Number() of them
NumberValue(s) ==
    CASE s = "0" -> I64(0)
      [] s = "1" -> I64(1)
      [] s = "2" -> I64(2)
      [] s = "5" -> I64(5)
      [] s = "-1" -> I64(-1)
      [] s = "2.5" -> F64(5, 2)
      [] OTHER -> Nil

isNumber(s) == NumberValue(s) # Nil

\* the tokens that start with an operator character
IsOperator(s) ==
    s \in {"+", "-", "*", "/", "%", "=", "+=", "-=", "*=", "/=", "%=", "&&", "||",
           "==", ">=", "<=", "!=", ">", "<"}

\* the tokens that start with a letter
IsWord(s) == s \in {"true", "false", "a", "b", "x"}

\* the tokens that start with a quote
IsQuoted(s) == s \in {"'q'"}

\* the expression node itself as a value: what EvalExpression returns for a
\* token of no class
ExprValue(p) == Val("expr", _string(p.This), 0, 1, <<>>)

\* _boolf(v): the boolean of a value, and whether it has one
_boolf(v) ==
    CASE v.k = "bool" -> [b |-> v.n = 1, ok |-> TRUE]
      [] v.k = "str" /\ v.s = "true" -> [b |-> TRUE, ok |-> TRUE]
      [] v.k = "str" /\ v.s = "false" -> [b |-> FALSE, ok |-> TRUE]
      [] OTHER -> [b |-> FALSE, ok |-> FALSE]

\* logic(i1, i2, op)
logic(i1, i2, op) ==
    LET b1 == _boolf(i1)
        b2 == _boolf(i2)
    IN  IF ~b1.ok \/ ~b2.ok THEN FALSE
        ELSE CASE op = "&" -> b1.b /\ b2.b
               [] op = "|" -> b1.b \/ b2.b
               [] OTHER -> FALSE

\* the result of an evaluation: the heap after it, the value, whether it returned,
\* and the positions evaluated
EvalRet(h, v, ev) == [h |-> h, v |-> v, ok |-> TRUE, ev |-> ev]
EvalPanic(h, ev) == [h |-> h, v |-> Nil, ok |-> FALSE, ev |-> ev]

\* the *Graph a call returned, as an interface value
AsValue(r, ev) == IF r.ok THEN EvalRet(r.h, Ptr(r.ret), ev) ELSE EvalPanic(r.h, ev)

\* the value the switch of assign stores for op, a path that exists being given
\* v, calc(0, v, '-') with 0 an int, 0, "infinity", "undefined"
assignValue(v, op) ==
    CASE op = "+" -> v
      [] op = "-" -> calc(GoInt(0), v, "-").v
      [] op = "*" -> GoInt(0)
      [] op = "/" -> Str("infinity")
      [] OTHER -> Str("undefined")

\* assign after left := g.get(p): when get found nothing, left.This reads
\* through a nil pointer; the switch is what a path that exists gets
assignLeft(left, n, p, v, op, ev) ==
    IF ~left.ok \/ left.ret = NilPtr THEN EvalPanic(left.h, ev)
    ELSE IF op \in {"+", "-", "*", "/", "%"}
         THEN AsValue(set(left.h, n, p.Out, assignValue(v, op)), ev)
    ELSE EvalRet(left.h, Nil, ev)

\* g.assign(p, v, op)
assign(h, n, p, v, op, ev) ==
    IF op = "=" THEN AsValue(set(h, n, p.Out, v), ev)
    ELSE assignLeft(get(h, n, p.Out), n, p, v, op, ev)

RECURSIVE EvalExpression(_, _, _, _, _)

\* calc on the values of the two operands, r1 being the evaluation of the left one
calcOperands(r1, x) ==
    IF x.ok THEN EvalRet(r1.h, x.v, r1.ev) ELSE EvalPanic(r1.h, r1.ev)

\* the arithmetic cases of evalBinary, r1 being the evaluation of n1, made after
\* that of the right operand
evalCalc(r1, r2, op) == IF ~r1.ok THEN r1 ELSE calcOperands(r1, calc(r1.v, r2.v, op))

\* the cases && and || of evalBinary, r1 being the evaluation of n1
evalLogic(r1, r2, op) ==
    IF ~r1.ok THEN r1 ELSE EvalRet(r1.h, Bool(logic(r1.v, r2.v, op)), r1.ev)

\* the operator assign and logic get for the operator o of the expression
OpChar(o) ==
    CASE o = "=" -> "="
      [] o = "+=" -> "+"
      [] o = "-=" -> "-"
      [] o = "*=" -> "*"
      [] o = "/=" -> "/"
      [] o = "%=" -> "%"
      [] o = "&&" -> "&"
      [] OTHER -> "|"

\* the switch of evalBinary on the operator o, r2 being the evaluation of the
\* right operand and i2 its value
evalSwitch(r2, n, p, pos, o) ==
    CASE o \in {"+", "-", "*", "/", "%"} ->
           evalCalc(EvalExpression(r2.h, n, p.Out[1], pos \o <<1>>, r2.ev), r2, o)
      [] o \in {"=", "+=", "-=", "*=", "/=", "%="} ->
           assign(r2.h, n, p.Out[1], r2.v, OpChar(o), r2.ev)
      [] o \in {"&&", "||"} ->
           evalLogic(EvalExpression(r2.h, n, p.Out[1], pos \o <<1>>, r2.ev), r2, OpChar(o))
      [] OTHER -> EvalRet(r2.h, Nil, r2.ev)

\* evalBinary after i2 := g.EvalExpression(p.Out[1])
evalRight(r2, n, p, pos) ==
    IF ~r2.ok THEN r2 ELSE evalSwitch(r2, n, p, pos, _string(p.This))

\* && and || that leave the right operand alone when the left one, r1, decides
evalShort(r1, b1, n, p, pos, o) ==
    IF ~r1.ok THEN r1
    ELSE IF b1.ok /\ b1.b = (o = "||") THEN EvalRet(r1.h, Bool(b1.b), r1.ev)
    ELSE evalLogic(r1, EvalExpression(r1.h, n, p.Out[2], pos \o <<2>>, r1.ev), OpChar(o))

evalShortLeft(r1, n, p, pos, o) == evalShort(r1, _boolf(r1.v), n, p, pos, o)

\* evalBinary with && and || that short-circuit
evalBinaryShortCircuit(h, n, p, pos, ev) ==
    IF _string(p.This) \in {"&&", "||"}
    THEN evalShortLeft(EvalExpression(h, n, p.Out[1], pos \o <<1>>, ev), n, p, pos,
                       _string(p.This))
    ELSE evalRight(EvalExpression(h, n, p.Out[2], pos \o <<2>>, ev), n, p, pos)

\* g.evalBinary(p): i2 := g.EvalExpression(p.Out[1]) first, then the switch
evalBinary(h, n, p, pos, ev) ==
    IF Len(p.Out) < 2 THEN EvalPanic(h, ev)
    ELSE evalRight(EvalExpression(h, n, p.Out[2], pos \o <<2>>, ev), n, p, pos)

\* EvalExpression on s, the string of p, ev1 being the positions evaluated with
\* this one
evalToken(h, n, p, pos, ev1, s) ==
    IF s = "" THEN EvalRet(h, Str(""), ev1)
    ELSE IF isNumber(s) THEN EvalRet(h, NumberValue(s), ev1)
    ELSE IF s = TYPE_EXPRESSION
         THEN IF Len(p.Out) = 0 THEN EvalPanic(h, ev1)
              ELSE EvalExpression(h, n, p.Out[1], pos \o <<1>>, ev1)
    ELSE IF IsOperator(s) THEN evalBinary(h, n, p, pos, ev1)
    ELSE IF IsQuoted(s) THEN EvalRet(h, Str(s), ev1)
    ELSE IF IsWord(s)
         THEN IF s = "false" THEN EvalRet(h, Bool(FALSE), ev1)
              ELSE IF s = "true" THEN EvalRet(h, Bool(TRUE), ev1)
              ELSE EvalRet(h, Str(s), ev1)
    ELSE EvalRet(h, ExprValue(p), ev1)

\* g.EvalExpression(p) at position pos, ev being the positions evaluated before
EvalExpression(h, n, p, pos, ev) ==
    IF p.This = Nil THEN EvalRet(h, Nil, Append(ev, pos))
    ELSE evalToken(h, n, p, pos, Append(ev, pos), _string(p.This))

----------------------------------------------------------------------------
(* The state after construction: one empty root, g := New().               *)

Init ==
    /\ heap = <<GraphRec(Nil, <<>>)>>
    /\ g = 1
    /\ c = NilPtr
    /\ status = "ok"
    /\ last = [op |-> "init"]
    /\ heap0 = heap

\* the nodes reached from the nodes of frontier
RECURSIVE ReachFrom(_, _, _)
ReachFrom(h, frontier, seen) ==
    IF frontier = {} THEN seen
    ELSE LET x == CHOOSE y \in frontier : TRUE
             kids == {h[x].Out[i] : i \in 1 .. Len(h[x].Out)} \ {NilPtr}
         IN  ReachFrom(h, (frontier \cup kids) \ (seen \cup {x}), seen \cup {x})

Reach(h, roots) == ReachFrom(h, roots \ {NilPtr}, {})

\* the heap once the collector has freed the nodes that none of roots reaches: a
\* freed node is an empty record
Sweep(h, roots) ==
    [i \in 1 .. Len(h) |-> IF i \in Reach(h, roots) THEN h[i] ELSE GraphRec(Nil, <<>>)]

\* a call made in state heap on the graphs g and c, the only references the
\* caller keeps: its result becomes the state, a panic ends the program
StepGC(r, l) ==
    /\ heap0' = heap
    /\ heap' = Sweep(r.h, {g, c})
    /\ status' = IF r.ok THEN "ok" ELSE "panic"
    /\ last' = l
    /\ UNCHANGED <<g, c>>

\* a call made in state heap: its result becomes the state, a panic ends the program
Step(r, l) ==
    /\ heap0' = heap
    /\ heap' = r.h
    /\ status' = IF r.ok THEN "ok" ELSE "panic"
    /\ last' = l
    /\ UNCHANGED <<g, c>>

----------------------------------------------------------------------------
(* Composition: New and Add.                                               *)

AddVals == {Nil, Str("a")}

\* t := New()
ANew ==
    /\ status = "ok"
    /\ Len(heap) < MaxHeap
    /\ Step(New(heap), [op |-> "New"])

\* n.Add(v) for a scalar or nil v
AAddVal ==
    \E n \in Ids(heap), v \in AddVals :
        /\ status = "ok"
        /\ Small(Add(heap, n, v).h)
        /\ Step(Add(heap, n, v), [op |-> "AddVal"])

\* n.Add(t) for a node t
AAddNode ==
    \E n \in Ids(heap), t \in Ids(heap) :
        /\ status = "ok"
        /\ Small(Add(heap, n, Ptr(t)).h)
        /\ Step(Add(heap, n, Ptr(t)), [op |-> "Add", n |-> n, t |-> t])

NextAdd == ANew \/ AAddVal \/ AAddNode

SpecAdd == Init /\ [][NextAdd]_vars

\* n.Add(c1); ...; n.Add(ck) for the nodes c1..ck of out
RECURSIVE AddEach(_, _, _)
AddEach(h, n, out) ==
    IF out = <<>> THEN h ELSE AddEach(Add(h, n, Ptr(Head(out))).h, n, Tail(out))

\* every slot of out holds a node with content
AllContent(h, out) ==
    \A i \in 1 .. Len(out) : out[i] # NilPtr /\ ~IsNil(h, out[i])

\* the last call was n.Add(t) with t transparent
AddedTransparent == last.op = "Add" /\ IsNil(heap0, last.t)

----------------------------------------------------------------------------
(* Reading and writing by path on the root g.                              *)

\* path elements: a field name, [i], {} and {i}, _len
Name(x) == GraphRec(Str(x), <<>>)
Index(i) == GraphRec(Str(TypeIndex), <<Name(i)>>)
SelectAll == GraphRec(Str(TypeSelector), <<>>)
Select(i) == GraphRec(Str(TypeSelector), <<Name(i)>>)
LenElem == GraphRec(Str("_len"), <<>>)

FieldNames == {"a", "b"}
\* the paths set is called with
SetPaths ==
    {<<>>, <<Name("a")>>, <<Name("b")>>, <<Name("a"), Name("b")>>, <<Name("b"), Name("b")>>,
     <<Index("1")>>, <<Name("a"), Index("1")>>}
\* the paths get is called with
GetPaths ==
    {<<>>, <<Name("a")>>, <<Name("a"), Name("b")>>, <<Index("1")>>,
     <<Name("a"), SelectAll>>, <<Name("b"), SelectAll>>,
     <<Name("a"), Select("0")>>, <<Name("a"), LenElem>>}
\* the values written
SetVals == {Str("v"), I64(7)}

SmallPath(h) == Len(h) <= MaxPathHeap /\ Edges(h) <= MaxPathEdges

\* a path of field names only
NamesOnly(path) == \A i \in 1 .. Len(path) : _string(path[i].This) \in FieldNames

\* n.Add(x) for a field name x, on any node
PAddVal ==
    \E n \in Ids(heap), x \in FieldNames :
        /\ status = "ok"
        /\ SmallPath(Add(heap, n, Str(x)).h)
        /\ Step(Add(heap, n, Str(x)), [op |-> "AddVal"])

\* g.set(path, v)
PSet ==
    \E path \in SetPaths, v \in SetVals :
        LET r == set(heap, g, path, v) IN
        /\ status = "ok"
        /\ SmallPath(r.h)
        /\ Step(r, [op |-> "set", path |-> path, v |-> v, ret |-> r.ret])

\* x := g.get(path), r being what get returned; the caller looks at x and drops
\* it: out and this are the children and the content of the node returned
Got(path, r) ==
    /\ status = "ok"
    /\ heap0' = heap
    /\ heap' = heap
    /\ status' = IF r.ok THEN "ok" ELSE "panic"
    /\ last' = [op |-> "get", path |-> path, ret |-> r.ret,
                out |-> IF r.ok /\ r.ret # NilPtr THEN r.h[r.ret].Out ELSE <<>>,
                this |-> IF r.ok /\ r.ret # NilPtr THEN r.h[r.ret].This ELSE Nil]
    /\ UNCHANGED <<g, c>>

PGet == \E path \in GetPaths : Got(path, get(heap, g, path))

NextPath == PAddVal \/ PSet \/ PGet

SpecPath == Init /\ [][NextPath]_vars

\* n is a leaf with content v
IsLeaf(h, n, v) == n # NilPtr /\ h[n].This = v /\ h[n].Out = <<>>

\* the last call was a set that returned, with a non-empty path of field names
SetByNames ==
    /\ last.op = "set"
    /\ status = "ok"
    /\ last.path # <<>>
    /\ NamesOnly(last.path)

Named(h, n, x) == SelectSeq(h[n].Out, LAMBDA k : k # NilPtr /\ _string(h[k].This) = x)

\* the last call was get(g, <<x, {}>>) and it returned
GotSelectAll ==
    /\ last.op = "get"
    /\ status = "ok"
    /\ Len(last.path) = 2
    /\ last.path[2] = SelectAll

\* C6: get of 'x{}' on a node returns a fresh container whose children are
\* exactly the node's children named x themselves, in order, and returns nil
\* exactly when the node has no child named x.
C6_SelectAllSiblings ==
    GotSelectAll =>
        LET m == Named(heap, g, _string(last.path[1].This)) IN
        /\ (last.ret = NilPtr) <=> (m = <<>>)
        /\ last.ret # NilPtr => (last.out = m /\ last.ret \notin Ids(heap))

\* the last call had a path without elements
EmptyPathCall == last.op \in {"get", "set"} /\ last.path = <<>>

\* C9 as stated: get and set with a path without elements return nil, and set
\* leaves the children of the root as they were.
C9_EmptyPathFails ==
    EmptyPathCall => (last.ret = NilPtr /\ heap[g].Out = heap0[g].Out)

\* C9 amended: with a path without elements neither call fails: get returns
\* the receiver itself and changes nothing; set discards the children of the
\* root, adds one new leaf holding the value and returns that leaf.
C9_EmptyPath ==
    EmptyPathCall =>
        /\ status = "ok"
        /\ last.op = "get" => (last.ret = g /\ last.out = heap[g].Out /\ heap = heap0)
        /\ last.op = "set" =>
              /\ last.ret \notin Ids(heap0)
              /\ heap[g].Out = <<last.ret>>
              /\ IsLeaf(heap, last.ret, last.v)

\* set with a path without elements was called on a root that had children
C9_Witness ==
    /\ EmptyPathCall
    /\ last.op = "set"
    /\ heap0[g].Out # <<>>

\* the last call was a set whose path ends with the index k, counted from 0
SetAtIndex ==
    /\ last.op = "set"
    /\ last.path # <<>>
    /\ _string(last.path[Len(last.path)].This) = TypeIndex

\* no child slot of a node of h is nil
NoNilSlot(h) == \A n \in Ids(h) : \A j \in 1 .. Len(h[n].Out) : h[n].Out[j] # NilPtr

\* the node on which a set that returned met the index of its path: the root, or
\* the first child named by the field before the index
IndexedNode ==
    IF Len(last.path) = 1 THEN g
    ELSE NodeFrom(heap, heap[g].Out, _string(last.path[1].This), 1).ret

\* the children node had before the call, none for a node the call created
OldOut(node) == IF node \in Ids(heap0) THEN heap0[node].Out ELSE <<>>

\* C11: a set that meets an index k on a node with n children returns and leaves
\* the node with max(n, k+1) children: the old ones other than k unchanged at
\* their positions, a new node in every gap position n..k-1, and at k a leaf
\* holding the value; and no child slot of any node is nil afterwards.
C11_IndexGrowth ==
    SetAtIndex =>
        /\ status = "ok"
        /\ LET node == IndexedNode
               k == Int64(last.path[Len(last.path)])
               old == OldOut(node)
               out == heap[node].Out
           IN  /\ Len(out) = IF Len(old) > k + 1 THEN Len(old) ELSE k + 1
               /\ \A j \in 1 .. Len(old) : j # k + 1 => out[j] = old[j]
               /\ \A j \in Len(old) + 1 .. k : out[j] \in Ids(heap) \ Ids(heap0)
               /\ IsLeaf(heap, out[k + 1], last.v)
        /\ NoNilSlot(heap)

----------------------------------------------------------------------------
(* Two graphs, g and c := New(), and g.Copy(c).                            *)

InitCopy ==
    /\ heap = <<GraphRec(Nil, <<>>), GraphRec(Nil, <<>>)>>
    /\ g = 1
    /\ c = 2
    /\ status = "ok"
    /\ last = [op |-> "init", root |-> NilPtr, cp |-> <<>>, done |-> FALSE, k |-> 0]
    /\ heap0 = heap

SmallCopy(h) == Len(h) <= MaxCopyHeap

\* the tree under n as a value: content and subtrees, "nil" for a nil slot
RECURSIVE TreeOf(_, _)
TreeOf(h, n) ==
    IF n = NilPtr THEN <<"nil">>
    ELSE <<h[n].This, [i \in 1 .. Len(h[n].Out) |-> TreeOf(h, h[n].Out[i])]>>

CopyVals == {Str("a"), Nil}
CopyPaths == {<<Name("a"), Name("b")>>, <<Name("a"), Index("1")>>}
Roots == {g, c}

\* what a call records: its name, the root of the graph it was made through,
\* cp, the children g.Copy(c) appended to g (done: Copy has been called), and k,
\* the number of calls made after the copy
Call(op, r) ==
    [op |-> op, root |-> r, cp |-> last.cp, done |-> last.done,
     k |-> IF last.done THEN last.k + 1 ELSE 0]

\* the harness may make another call
MayCall == status = "ok" /\ (last.done => last.k < MaxCalls)

\* n.Add(v) for a scalar or nil v, on a node of either graph
CAddVal ==
    \E r \in Roots : \E n \in Reach(heap, {r}), v \in CopyVals :
        /\ MayCall
        /\ SmallCopy(Add(heap, n, v).h)
        /\ StepGC(Add(heap, n, v), Call("Add", r))

\* g.Copy(c), once
CCopy ==
    LET r == Copy(heap, g, c) IN
    /\ status = "ok"
    /\ ~last.done
    /\ SmallCopy(r.h)
    /\ StepGC(r, [op |-> "Copy", root |-> g, done |-> TRUE, k |-> 0,
                cp |-> IF r.ok THEN SubSeq(r.h[g].Out, Len(heap[g].Out) + 1, Len(r.h[g].Out))
                       ELSE <<>>])

\* r.set(path, v) on either root
CSet ==
    \E r \in Roots, path \in CopyPaths :
        LET x == set(heap, r, path, Str("v")) IN
        /\ MayCall
        /\ SmallCopy(x.h)
        /\ StepGC(x, Call("set", r))

\* n.Delete(v) on a node of either graph, after the copy
CDelete ==
    \E r \in Roots : \E n \in Reach(heap, {r}) :
        /\ MayCall
        /\ last.done
        /\ StepGC(Delete(heap, n, Str("a")), Call("Delete", r))

\* n.DeleteAt(0) on a node of either graph, after the copy
CDeleteAt ==
    \E r \in Roots : \E n \in Reach(heap, {r}) :
        /\ MayCall
        /\ last.done
        /\ StepGC(DeleteAt(heap, n, 0), Call("DeleteAt", r))

\* r.Substitute("a", "z") on either root, after the copy
CSubstitute ==
    \E r \in Roots :
        /\ MayCall
        /\ last.done
        /\ StepGC(Substitute(heap, r, "a", Str("z")), Call("Substitute", r))

NextCopy == CAddVal \/ CCopy \/ CSet \/ CDelete \/ CDeleteAt \/ CSubstitute

SpecCopy == InitCopy /\ [][NextCopy]_vars

\* the last call was g.Copy(c) and it returned
Copied == last.op = "Copy" /\ status = "ok"

\* the last call was made after the copy through the graph of root r, and returned
CalledThrough(r) == last.done /\ last.op # "Copy" /\ last.root = r /\ status = "ok"

\* the nodes under the children of out
Under(h, out) == Reach(h, {out[i] : i \in 1 .. Len(out)})

\* C10: after g.Copy(c) the children appended to g are equal, in order, to the
\* children of c, and no node under them is a node of c; a later call through c
\* (set, Add, Delete, DeleteAt, Substitute) leaves g as it was, and one through g
\* leaves c as it was.
C10_CopyIndependent ==
    /\ Copied =>
          /\ heap[g].Out = heap0[g].Out \o last.cp
          /\ Len(last.cp) = Len(heap0[c].Out)
          /\ \A i \in 1 .. Len(last.cp) :
                TreeOf(heap, last.cp[i]) = TreeOf(heap0, heap0[c].Out[i])
          /\ TreeOf(heap, c) = TreeOf(heap0, c)
    /\ (last.done /\ status = "ok") => Under(heap, last.cp) \cap Reach(heap, {c}) = {}
    /\ CalledThrough(c) => TreeOf(heap, g) = TreeOf(heap0, g)
    /\ CalledThrough(g) => TreeOf(heap, c) = TreeOf(heap0, c)

\* after a copy of two levels, a call through c changed c
C10_Witness ==
    /\ CalledThrough(c)
    /\ TreeOf(heap, c) # TreeOf(heap0, c)
    /\ \E i \in 1 .. Len(last.cp) : heap0[last.cp[i]].Out # <<>>

----------------------------------------------------------------------------
(* Deep graphs: a root wrapped level by level, and Depth probed.           *)

\* the nodes of n's graph lie on a cycle
Cyclic(h, n) == \E x \in Reach(h, {n}) : x \in Under(h, h[x].Out)

\* the number of levels below n in a graph without cycles
RECURSIVE Levels(_, _)
RECURSIVE MaxLevels(_, _)
MaxLevels(h, out) ==
    IF out = <<>> THEN 0
    ELSE LET a == Levels(h, Head(out))
             b == MaxLevels(h, Tail(out))
         IN  IF a > b THEN a ELSE b

Levels(h, n) == IF h[n].Out = <<>> THEN 0 ELSE 1 + MaxLevels(h, h[n].Out)

\* no call of Depth is in progress
Idle == IF last.op = "Depth" THEN last.pc = "done" ELSE TRUE

\* the root is its own child
Tied == \E k \in 1 .. Len(heap[g].Out) : heap[g].Out[k] = g

\* a new root above the root: g = New(x); g.Add(old g)
DWrap ==
    /\ status = "ok"
    /\ Idle
    /\ ~Tied
    /\ Len(heap) <= DepthLimit + MaxExcess
    /\ LET n == NewVal(heap, Str("x")) IN
       /\ heap' = Add(n.h, n.ret, Ptr(g)).h
       /\ g' = n.ret
    /\ heap0' = heap
    /\ last' = [op |-> "Wrap"]
    /\ UNCHANGED <<c, status>>

\* g.Add(g): the root becomes its own child
DTie ==
    /\ status = "ok"
    /\ Idle
    /\ ~IsNil(heap, g)
    /\ ~Tied
    /\ Step(Add(heap, g, Ptr(g)), [op |-> "Tie"])

\* a step of Depth to the state st: a panic and a recursion without end stop the
\* program
DepthStep(st) ==
    /\ last' = st
    /\ status' = IF st.pc \in {"panic", "never"} THEN "panic" ELSE "ok"
    /\ UNCHANGED <<heap, g, c, heap0>>

\* d := g.Depth(), the call
DProbe ==
    /\ status = "ok"
    /\ Idle
    /\ last' = DepthSt("call", <<>>, g, 0)
    /\ heap0' = heap
    /\ UNCHANGED <<heap, g, c, status>>

\* a call n.Depth() begins
DCall ==
    /\ status = "ok"
    /\ last.op = "Depth"
    /\ last.pc = "call"
    /\ DepthStep(DepthCall(heap, last))

\* a call n.Depth() returns
DReturn ==
    /\ status = "ok"
    /\ last.op = "Depth"
    /\ last.pc = "ret"
    /\ DepthStep(DepthReturn(heap, last))

NextDepth == DWrap \/ DTie \/ DProbe \/ DCall \/ DReturn

SpecDepth == Init /\ [][NextDepth]_vars

\* g.Depth() has ended: it returned, or it never will
DepthEnded == last.op = "Depth" /\ last.pc \in {"done", "panic", "never"}

\* C5: Depth always returns; it returns -1 for a graph with a cycle and for one
\* deeper than the limit, however much deeper, and the depth otherwise.
C5_DepthReports ==
    DepthEnded =>
        /\ last.pc = "done"
        /\ IF Cyclic(heap, g) THEN last.val = -1
           ELSE IF Levels(heap, g) > DepthLimit THEN last.val = -1
           ELSE last.val = Levels(heap, g)

----------------------------------------------------------------------------
(* calc on its own.                                                        *)

ArithOps == {"+", "-", "*", "/", "%"}

\* the operands calc is called with: int64, float64, and values of other kinds
CalcInts == {I64(MinInt), I64(-1), I64(0), I64(1), I64(2), I64(MaxInt)}
CalcFloats == {F64(0, 1), F64(1, 2), F64(2, 1), F64(-3, 2)}
CalcOthers == {Str("a"), Str("1"), Nil, Bool(TRUE), GoInt(0)}
CalcVals == CalcInts \cup CalcFloats \cup CalcOthers

\* r := calc(v1, v2, op)
ACalc ==
    \E v1 \in CalcVals, v2 \in CalcVals, op \in ArithOps :
        LET r == calc(v1, v2, op) IN
        /\ status = "ok"
        /\ last.op = "init"
        /\ status' = IF r.ok THEN "ok" ELSE "panic"
        /\ last' = [op |-> "calc", v1 |-> v1, v2 |-> v2, o |-> op, ret |-> r.v]
        /\ UNCHANGED <<heap, g, c, heap0>>

NextCalc == ACalc

SpecCalc == Init /\ [][NextCalc]_vars

\* an operand calc takes as a number
Numeric(v) == v.k \in {"int64", "float64"}

\* the concatenation of the string forms of the operands of the last call
Concat == Str(_string(last.v1) \o _string(last.v2))

\* the last call was calc, and it returned
Calced == last.op = "calc" /\ status = "ok"

\* C7 as stated: + concatenates only when neither operand is numeric, and does
\* not when exactly one is; -, *, / and % give nil for a non-numeric operand.
C7_ConcatOnlyWithoutNumbers ==
    Calced =>
        /\ (last.o = "+" /\ ~Numeric(last.v1) /\ ~Numeric(last.v2)) => last.ret = Concat
        /\ (last.o = "+" /\ Numeric(last.v1) # Numeric(last.v2)) => last.ret # Concat
        /\ (last.o # "+" /\ ~(Numeric(last.v1) /\ Numeric(last.v2))) => last.ret = Nil

\* C7 amended: + gives the concatenation of the string forms of the operands
\* whenever at least one operand is not numeric, also when the other one is, and
\* a number when both are; -, *, / and % give nil for a non-numeric operand.
C7_ConcatUnlessBothNumbers ==
    Calced =>
        /\ (last.o = "+" /\ ~(Numeric(last.v1) /\ Numeric(last.v2))) => last.ret = Concat
        /\ (last.o = "+" /\ Numeric(last.v1) /\ Numeric(last.v2)) => Numeric(last.ret)
        /\ (last.o # "+" /\ ~(Numeric(last.v1) /\ Numeric(last.v2))) => last.ret = Nil

\* + of an int64 and a string gave their concatenation
C7_Witness ==
    /\ Calced
    /\ last.o = "+"
    /\ last.v1 = I64(1)
    /\ last.v2 = Str("a")
    /\ last.ret = Str("1a")

----------------------------------------------------------------------------
(* Evaluation: expressions evaluated on the context graph g.               *)

\* a literal or a word, a binary expression, a parenthesised expression, a path
Lit(x) == GraphRec(Str(x), <<>>)
Bin(o, l, r) == GraphRec(Str(o), <<l, r>>)
Paren(e) == GraphRec(Str(TYPE_EXPRESSION), <<e>>)
PathOf(x) == GraphRec(Str(TYPE_PATH), <<Name(x)>>)

CompoundOps == {"+=", "-=", "*=", "/=", "%="}
LogicOps == {"&&", "||"}
\* the int64 literals of the expressions
IntLits == {"0", "1", "2", "-1"}

ArithExprs == {Bin(o, Lit(x), Lit(y)) : o \in ArithOps, x \in IntLits, y \in IntLits}
AssignExprs ==
    {Bin(o, PathOf(x), Lit(y)) : o \in CompoundOps \cup {"="}, x \in {"a"}, y \in {"1", "2"}}
\* the operands of && and ||
LeftOperands == {Lit("true"), Lit("false"), Lit("1")}
RightOperands ==
    {Lit("true"), Lit("false"), Bin("=", PathOf("a"), Lit("1")),
     Paren(Bin("=", PathOf("b"), Lit("2"))), Bin("+=", PathOf("a"), Lit("2")),
     Bin("||", Lit("true"), Bin("=", PathOf("b"), Lit("1")))}
LogicExprs == {Bin(o, l, r) : o \in LogicOps, l \in LeftOperands, r \in RightOperands}

SmallEval(h) == Len(h) <= MaxEvalHeap

\* g.EvalExpression(e), the caller dropping the result r
Eval(e, r) ==
    /\ status = "ok"
    /\ SmallEval(r.h)
    /\ StepGC(r, [op |-> "eval", e |-> e, ret |-> r.v, ev |-> r.ev])

EArith == \E e \in ArithExprs : Eval(e, EvalExpression(heap, g, e, <<>>, <<>>))
EAssign == \E e \in AssignExprs : Eval(e, EvalExpression(heap, g, e, <<>>, <<>>))
ELogic == \E e \in LogicExprs : Eval(e, EvalExpression(heap, g, e, <<>>, <<>>))

NextEval == EArith \/ EAssign \/ ELogic

SpecEval == Init /\ [][NextEval]_vars

\* the expression at a position of e
RECURSIVE ExprAt(_, _)
ExprAt(e, pos) == IF pos = <<>> THEN e ELSE ExprAt(e.Out[Head(pos)], Tail(pos))

\* how many times a position was evaluated
Count(ev, pos) == Cardinality({i \in 1 .. Len(ev) : ev[i] = pos})

IsAssign(e) == _string(e.This) \in CompoundOps \cup {"="}
IsLogic(e) == _string(e.This) \in LogicOps

\* e holds an assignment
RECURSIVE HasAssign(_)
HasAssign(e) == IsAssign(e) \/ \E i \in 1 .. Len(e.Out) : HasAssign(e.Out[i])

\* e without its parentheses
RECURSIVE Bare(_)
Bare(e) == IF _string(e.This) = TYPE_EXPRESSION /\ Len(e.Out) = 1 THEN Bare(e.Out[1]) ELSE e

\* in h the node at path under g has one child, a leaf, with a content of vs
Stored(h, path, vs) ==
    LET r == get(h, g, path) IN
    /\ r.ok
    /\ r.ret # NilPtr
    /\ Len(h[r.ret].Out) = 1
    /\ h[r.ret].Out[1] # NilPtr
    /\ h[h[r.ret].Out[1]].This \in vs
    /\ h[h[r.ret].Out[1]].Out = <<>>

\* the value at a node: the content of its only child
Current(h, n) == IF Len(h[n].Out) = 1 /\ h[n].Out[1] # NilPtr THEN h[h[n].Out[1]].This ELSE Nil

\* the last call evaluated e and returned
Evaluated == last.op = "eval" /\ status = "ok"

\* the arithmetic operator of a compound assignment
ArithOf(o) ==
    CASE o = "+=" -> "+"
      [] o = "-=" -> "-"
      [] o = "*=" -> "*"
      [] o = "/=" -> "/"
      [] o = "%=" -> "%"

\* the values of the policy table of compound assignment
Policy(o, v) ==
    CASE o = "+=" -> {v}
      [] o = "-=" -> {calc(I64(0), v, "-").v}
      [] o = "*=" -> {I64(0), GoInt(0)}
      [] o = "/=" -> {Str("infinity")}
      [] o = "%=" -> {Str("undefined")}

\* C3: a compound assignment path o= v completes; when get found no node at the
\* path before, the path then holds the policy value of o (v, 0-v, 0, "infinity",
\* "undefined"); when get found a node, it holds the arithmetic result of the value
\* that was there and v.
C3_CompoundAssign ==
    (last.op = "eval" /\ _string(last.e.This) \in CompoundOps) =>
        LET o == _string(last.e.This)
            path == last.e.Out[1].Out
            v == NumberValue(_string(last.e.Out[2].This))
            left == get(heap0, g, path)
        IN  /\ status = "ok"
            /\ IF left.ret = NilPtr THEN Stored(heap, path, Policy(o, v))
               ELSE Stored(heap, path,
                           {calc(Current(heap0, left.ret), v, ArithOf(o)).v})

\* C4: in an evaluation that returned, both operands of every && and || that was
\* evaluated were evaluated exactly once; and when the right operand of the
\* expression is an assignment path = v and the left operand holds no
\* assignment, the path holds v afterwards, whatever the left operand is.
C4_NoShortCircuit ==
    Evaluated =>
        /\ \A i \in 1 .. Len(last.ev) :
               IsLogic(ExprAt(last.e, last.ev[i])) =>
                   /\ Count(last.ev, last.ev[i] \o <<1>>) = 1
                   /\ Count(last.ev, last.ev[i] \o <<2>>) = 1
        /\ (/\ IsLogic(last.e)
            /\ _string(Bare(last.e.Out[2]).This) = "="
            /\ ~HasAssign(last.e.Out[1])) =>
               Stored(heap, Bare(last.e.Out[2]).Out[1].Out,
                      {NumberValue(_string(Bare(last.e.Out[2]).Out[2].This))})

\* false && (a = 1) was evaluated on a graph without a, and a holds 1
C4_Witness ==
    /\ Evaluated
    /\ last.e = Bin("&&", Lit("false"), Bin("=", PathOf("a"), Lit("1")))
    /\ get(heap0, g, <<Name("a")>>).ret = NilPtr
    /\ last.ret = Bool(FALSE)
    /\ Stored(heap, <<Name("a")>>, {I64(1)})

\* C8: the evaluation of x o y for int64 literals x and y and an arithmetic
\* operator o completes and returns a number or nil.
C8_ArithmeticNeverPanics ==
    (last.op = "eval" /\ last.e \in ArithExprs) =>
        /\ status = "ok"
        /\ last.ret.k \in {"int64", "float64", "nil"}

====
